---- MODULE Spec2Model ----
(***************************************************************************)
(* Model of backend/netlify/functions/api.py: the handler upload_csv of    *)
(* POST /upload-csv.  One request is followed from the uploaded file to    *)
(* the HTTP response: file type check, pd.read_csv, header normalisation,  *)
(* row filter, numeric cleaning, balance check, IsolationForest,           *)
(* rule-based filter, Gemini recommendations, JSONResponse.                *)
(*                                                                         *)
(* Python strings are tuples of one-character strings, so that lower(),    *)
(* strip(), replace(), split(), join(), startswith() and contains() are    *)
(* computed, not assumed.  Amounts are decimal literals; a parsed amount   *)
(* is named by its value in cents (an integer), which stands for the       *)
(* float64 nearest to cents/100.  Where the handler does float64           *)
(* arithmetic on amounts (sum, difference, comparison with 0.01, "%.2f")   *)
(* the model computes IEEE-754 binary64 round-to-nearest-even results on   *)
(* exact fixed-point numbers (see the float64 section).                    *)
(***************************************************************************)
EXTENDS Integers, Sequences, FiniteSets, TLC

(***************************************************************************)
(* Python str operations on tuples of characters                           *)
(***************************************************************************)

\* str.lower() on one character: the ASCII letters.
UpperToLower ==
    [c \in {"A","B","C","D","E","F","G","H","I","J","K","L","M",
            "N","O","P","Q","R","S","T","U","V","W","X","Y","Z"} |->
        CASE c = "A" -> "a" [] c = "B" -> "b" [] c = "C" -> "c" [] c = "D" -> "d"
          [] c = "E" -> "e" [] c = "F" -> "f" [] c = "G" -> "g" [] c = "H" -> "h"
          [] c = "I" -> "i" [] c = "J" -> "j" [] c = "K" -> "k" [] c = "L" -> "l"
          [] c = "M" -> "m" [] c = "N" -> "n" [] c = "O" -> "o" [] c = "P" -> "p"
          [] c = "Q" -> "q" [] c = "R" -> "r" [] c = "S" -> "s" [] c = "T" -> "t"
          [] c = "U" -> "u" [] c = "V" -> "v" [] c = "W" -> "w" [] c = "X" -> "x"
          [] c = "Y" -> "y" [] c = "Z" -> "z"]

LowerChar(c) == IF c \in DOMAIN UpperToLower THEN UpperToLower[c] ELSE c

\* str.lower()
Lower(s) == [i \in 1..Len(s) |-> LowerChar(s[i])]

\* The characters str.strip() removes.
Whitespace == {" ", "\t", "\n", "\r"}

RECURSIVE LStrip(_)
LStrip(s) ==
    IF s # <<>> /\ Head(s) \in Whitespace THEN LStrip(Tail(s)) ELSE s

RECURSIVE RStrip(_)
RStrip(s) ==
    IF s # <<>> /\ s[Len(s)] \in Whitespace
    THEN RStrip(SubSeq(s, 1, Len(s) - 1))
    ELSE s

\* str.strip()
Strip(s) == RStrip(LStrip(s))

\* str.replace(ch, "") for a one-character ch
RemoveChar(s, ch) == SelectSeq(s, LAMBDA c : c # ch)

\* str.startswith(prefix)
StartsWith(s, prefix) ==
    /\ Len(prefix) <= Len(s)
    /\ SubSeq(s, 1, Len(prefix)) = prefix

\* str.endswith(suffix)
EndsWith(s, suffix) ==
    /\ Len(suffix) <= Len(s)
    /\ SubSeq(s, Len(s) - Len(suffix) + 1, Len(s)) = suffix

\* sub in s
Contains(s, sub) ==
    \E i \in 1..(Len(s) - Len(sub) + 1) : SubSeq(s, i, i + Len(sub) - 1) = sub

\* str.split(sep) for a one-character sep: always at least one part.
RECURSIVE SplitAcc(_, _, _)
SplitAcc(s, sep, cur) ==
    IF s = <<>> THEN <<cur>>
    ELSE IF Head(s) = sep THEN <<cur>> \o SplitAcc(Tail(s), sep, <<>>)
    ELSE SplitAcc(Tail(s), sep, Append(cur, Head(s)))

Split(s, sep) == SplitAcc(s, sep, <<>>)

\* sep.join(parts)
RECURSIVE Join(_, _)
Join(sep, parts) ==
    IF parts = <<>> THEN <<>>
    ELSE IF Len(parts) = 1 THEN parts[1]
    ELSE parts[1] \o sep \o Join(sep, Tail(parts))

(***************************************************************************)
(* float64 (IEEE-754 binary64, round to nearest, ties to even)             *)
(*                                                                         *)
(* A magnitude is an exact fixed-point number: a tuple of limbs, least     *)
(* significant first, in base 2^20, whose unit is 2^-60 (three fractional  *)
(* limbs); the last limb is the integer part and is not reduced.  Every    *)
(* float64 the handler meets on amounts of at least one cent is a multiple *)
(* of 2^-59, so these numbers hold them exactly.  A float64 is a record    *)
(* [neg, mag].                                                             *)
(***************************************************************************)
LimbBase == 2^20

LimbBits == 20

\* Limbs below the integer part.
FracLimbs == 3

\* Significand width of binary64.
MantissaBits == 53

ZeroMag == [i \in 1..(FracLimbs + 1) |-> 0]

RECURSIVE Log2(_)
Log2(n) == IF n <= 1 THEN 0 ELSE 1 + Log2(n \div 2)

\* Carry propagation: every limb but the last is reduced below LimbBase.
RECURSIVE Carry(_, _, _)
Carry(limbs, i, c) ==
    IF i = Len(limbs) THEN <<limbs[i] + c>>
    ELSE <<(limbs[i] + c) % LimbBase>>
           \o Carry(limbs, i + 1, (limbs[i] + c) \div LimbBase)

Normalize(limbs) == Carry(limbs, 1, 0)

AddMag(a, b) == Normalize([i \in 1..Len(a) |-> a[i] + b[i]])

\* a - b for a >= b: limb-wise difference, borrows carried as negative carries
\* (\div and % round toward minus infinity).
SubMag(a, b) == Normalize([i \in 1..Len(a) |-> a[i] - b[i]])

\* -1, 0, 1 as a < b, a = b, a > b
RECURSIVE CmpFrom(_, _, _)
CmpFrom(a, b, i) ==
    IF i = 0 THEN 0
    ELSE IF a[i] > b[i] THEN 1
    ELSE IF a[i] < b[i] THEN -1
    ELSE CmpFrom(a, b, i - 1)

CmpMag(a, b) == CmpFrom(a, b, Len(a))

\* Index of the most significant non-zero limb (0 for zero).
RECURSIVE TopLimb(_, _)
TopLimb(a, i) == IF i = 0 \/ a[i] # 0 THEN i ELSE TopLimb(a, i - 1)

\* Position of the leading one bit, counted from the unit bit (bit 0).
LeadingBit(a) ==
    LET k == TopLimb(a, Len(a))
    IN  LimbBits * (k - 1) + Log2(a[k])

\* Rounds the exact magnitude a (plus a positive remainder below the unit when
\* sticky) to MantissaBits significant bits, to nearest, ties to even.
Round53(a, sticky) ==
    IF TopLimb(a, Len(a)) = 0 THEN a
    ELSE
    LET p == LeadingBit(a) - (MantissaBits - 1)     \* lowest kept bit
    IN  IF p <= 0 THEN a
        ELSE
        LET k    == ((p - 1) \div LimbBits) + 1     \* limb holding the round bit
            s    == p - LimbBits * (k - 1)          \* 1..LimbBits
            q    == 2^s
            half == q \div 2
            low  == a[k] % q
            below == sticky \/ \E j \in 1..(k - 1) : a[j] # 0
            odd  == IF s < LimbBits THEN (a[k] \div q) % 2 = 1
                    ELSE a[k + 1] % 2 = 1
            up   == \/ low > half
                    \/ low = half /\ below
                    \/ low = half /\ ~below /\ odd
        IN  Normalize([i \in 1..Len(a) |->
                IF i < k THEN 0
                ELSE IF i = k THEN a[i] - low + (IF up THEN q ELSE 0)
                ELSE a[i]])

FZero == [neg |-> FALSE, mag |-> ZeroMag]

FIsZero(x) == TopLimb(x.mag, Len(x.mag)) = 0

\* Division remainders |c| / 100 limb by limb, most significant first.
RECURSIVE DivLimbs(_, _, _)
DivLimbs(r, d, n) ==
    IF n = 0 THEN [limbs |-> <<>>, rem |-> r]
    ELSE LET rest == DivLimbs((r * LimbBase) % d, d, n - 1)
         IN  [limbs |-> Append(rest.limbs, (r * LimbBase) \div d), rem |-> rest.rem]

\* The float64 nearest to cents/100: what pd.to_numeric yields for a decimal
\* literal with two fractional digits (one correctly rounded division by 10^2).
FromCents(c) ==
    LET m  == IF c < 0 THEN -c ELSE c
        fr == DivLimbs(m % 100, 100, FracLimbs)
    IN  [neg |-> c < 0,
         mag |-> Round53(Append(fr.limbs, m \div 100), fr.rem # 0)]

FNeg(x) == IF FIsZero(x) THEN x ELSE [x EXCEPT !.neg = ~x.neg]

FAbs(x) == [x EXCEPT !.neg = FALSE]

\* x + y
FAdd(x, y) ==
    IF x.neg = y.neg
    THEN [neg |-> x.neg, mag |-> Round53(AddMag(x.mag, y.mag), FALSE)]
    ELSE IF CmpMag(x.mag, y.mag) = 0 THEN FZero
    ELSE IF CmpMag(x.mag, y.mag) > 0
    THEN [neg |-> x.neg, mag |-> Round53(SubMag(x.mag, y.mag), FALSE)]
    ELSE [neg |-> y.neg, mag |-> Round53(SubMag(y.mag, x.mag), FALSE)]

\* x - y
FSub(x, y) == FAdd(x, FNeg(y))

\* x < y
FLess(x, y) ==
    IF x.neg /\ ~y.neg THEN ~(FIsZero(x) /\ FIsZero(y))
    ELSE IF ~x.neg /\ y.neg THEN FALSE
    ELSE IF x.neg THEN CmpMag(x.mag, y.mag) > 0
    ELSE CmpMag(x.mag, y.mag) < 0

\* Series.sum() of a float64 column: left to right from 0.0 (numpy's pairwise
\* summation is this loop below eight elements).
RECURSIVE FSum(_, _)
FSum(xs, acc) ==
    IF xs = <<>> THEN acc ELSE FSum(Tail(xs), FAdd(acc, Head(xs)))

\* f"{x:.2f}": the decimal with two fractional digits nearest to x (ties to
\* even), named by its value in cents.
Format2f(x) ==
    LET m     == Normalize([i \in 1..Len(x.mag) |-> x.mag[i] * 100])
        n     == Len(m)
        frac  == [i \in 1..n |-> IF i = n THEN 0 ELSE m[i]]
        halfM == [i \in 1..n |-> IF i = n - 1 THEN LimbBase \div 2 ELSE 0]
        cmp   == CmpMag(frac, halfM)
        cents == IF cmp > 0 \/ (cmp = 0 /\ m[n] % 2 = 1) THEN m[n] + 1 ELSE m[n]
    IN  IF x.neg THEN -cents ELSE cents

(***************************************************************************)
(* pandas: read_csv cells, astype(str), to_numeric, quantile                *)
(***************************************************************************)
DigitVal ==
    [c \in {"0","1","2","3","4","5","6","7","8","9"} |->
        CASE c = "0" -> 0 [] c = "1" -> 1 [] c = "2" -> 2 [] c = "3" -> 3
          [] c = "4" -> 4 [] c = "5" -> 5 [] c = "6" -> 6 [] c = "7" -> 7
          [] c = "8" -> 8 [] c = "9" -> 9]

IsDigits(s) == \A i \in 1..Len(s) : s[i] \in DOMAIN DigitVal

RECURSIVE DigitsValue(_, _)
DigitsValue(s, acc) ==
    IF s = <<>> THEN acc ELSE DigitsValue(Tail(s), 10 * acc + DigitVal[Head(s)])

\* Index of the first ch in s, 0 when there is none.
RECURSIVE IndexOf(_, _, _)
IndexOf(s, ch, i) ==
    IF i > Len(s) THEN 0 ELSE IF s[i] = ch THEN i ELSE IndexOf(s, ch, i + 1)

NaN == [nan |-> TRUE, cents |-> 0]

\* pd.to_numeric(errors="coerce") on one string: [sign] digits [. digits], at
\* least one digit; anything else is coerced to NaN.  The value is kept in
\* cents: the literals of the input sets have at most two fractional digits.
ToNumeric(s) ==
    LET signed == s # <<>> /\ Head(s) \in {"-", "+"}
        u      == IF signed THEN Tail(s) ELSE s
        dot    == IndexOf(u, ".", 1)
        ip     == IF dot = 0 THEN u ELSE SubSeq(u, 1, dot - 1)
        fp     == IF dot = 0 THEN <<>> ELSE SubSeq(u, dot + 1, Len(u))
        fp2    == SubSeq(fp \o <<"0", "0">>, 1, 2)
    IN  IF IsDigits(ip) /\ IsDigits(fp) /\ Len(ip) + Len(fp) >= 1
        THEN LET v == 100 * DigitsValue(ip, 0) + DigitsValue(fp2, 0)
             IN  [nan |-> FALSE,
                  cents |-> IF signed /\ Head(s) = "-" THEN -v ELSE v]
        ELSE NaN

\* Field texts pd.read_csv reads as a missing value (its default na_values;
\* the ones over the alphabet of the inputs).
NaValues ==
    { <<>>, <<"n","a","n">>, <<"N","a","N">>, <<"N","A">>, <<"N","/","A">>,
      <<"n","u","l","l">>, <<"N","U","L","L">> }

NA == [na |-> TRUE, text |-> <<>>]

\* One field of the file as pd.read_csv stores it.
ReadCell(field) ==
    IF field \in NaValues THEN NA ELSE [na |-> FALSE, text |-> field]

\* astype(str) of one cell: a missing value prints as "nan".
AsStr(cell) == IF cell.na THEN <<"n","a","n">> ELSE cell.text

\* Lines 69-70: separators removed, stripped, "" and "nan" replaced by "0".
CleanText(cell) ==
    LET t == Strip(RemoveChar(AsStr(cell), ","))
    IN  IF t = <<>> \/ t = <<"n","a","n">> THEN <<"0">> ELSE t

\* Lines 69-72 for one cell.
CleanCell(cell) == ToNumeric(CleanText(cell))

RECURSIVE Insert(_, _)
Insert(x, sorted) ==
    IF sorted = <<>> THEN <<x>>
    ELSE IF x <= Head(sorted) THEN <<x>> \o sorted
    ELSE <<Head(sorted)>> \o Insert(x, Tail(sorted))

RECURSIVE Sort(_)
Sort(xs) == IF xs = <<>> THEN <<>> ELSE Insert(Head(xs), Sort(Tail(xs)))

\* Series.quantile(0.95), linear interpolation between the order statistics
\* at position 0.95 * (n - 1), of a non-empty column of cents.  The result
\* is in hundredths of a cent, and exact: the float64 rounding of the
\* interpolated value is not modelled.
Quantile95(col) ==
    LET v  == Sort(col)
        n  == Len(v)
        k  == 95 * (n - 1)
        lo == (k \div 100) + 1
        hi == IF lo < n THEN lo + 1 ELSE n
    IN  100 * v[lo] + (k % 100) * (v[hi] - v[lo])

Max2(a, b) == IF b > a THEN b ELSE a

(***************************************************************************)
(* The request: the uploaded file and the environment of the handler       *)
(***************************************************************************)
VARIABLES
    file,             \* the upload: filename, well-formedness, header, rows of fields
    env,              \* GEMINI_API_KEY set or not, and how the Gemini service behaves
    pc,               \* the stage of upload_csv that runs next
    df,               \* the DataFrame
    balance_message,  \* verdict and the two totals printed with two decimals (cents)
    contamination,    \* [num, den]: the rate handed to IsolationForest
    anomaly_score,    \* fit_predict's label per row: -1 outlier, 1 inlier
    amount_threshold, \* in hundredths of a cent
    anomalies,        \* the records of the response
    recommendations,  \* the text of the response
    response,         \* [status, body]; status 0 while the request is in flight
    ran               \* the stages run so far, in order

vars ==
    << file, env, pc, df, balance_message, contamination, anomaly_score,
       amount_threshold, anomalies, recommendations, response, ran >>

\* Line 57
expected_columns == << <<"i","t","e","m","s">>, <<"d","e","b","i","t">>, <<"c","r","e","d","i","t">> >>

\* Line 65: the alternatives of the pattern "Accrual Basis|Total"
FooterMarkers == { <<"a","c","c","r","u","a","l"," ","b","a","s","i","s">>, <<"t","o","t","a","l">> }

\* Line 98: the floor of amount_threshold, in dollars
AmountFloor == 10000

\* Line 99, in dollars
imbalance_threshold == 5000

\* Line 84: the tolerance 0.01, in cents
ToleranceCents == 1

\* Dollars in hundredths of a cent, the unit of amount_threshold.
Scaled(dollars) == dollars * 10000

\* Line 118
KeyNotSet ==
    << "E","r","r","o","r",":"," ","G","E","M","I","N","I","_","A","P","I","_",
       "K","E","Y"," ","n","o","t"," ","s","e","t" >>

\* Line 139: f"AI error: {str(e)}" for the exception text e
AiErrorPrefix == <<"A","I"," ","e","r","r","o","r",":"," ">>

AiError(e) == AiErrorPrefix \o e

\* Line 136
Bullet == <<"-", " ">>

DotCsv == <<".","c","s","v">>

(***************************************************************************)
(* The requests checked                                                    *)
(***************************************************************************)
\* Rows of one file of the amount family.
MaxRows == 2

\* Rows of one file of the text family.
MaxTextRows == 1

\* Characters of a text the service returns.
MaxTextLen == 4

SeqsUpTo(S, n) == UNION { [1..k -> S] : k \in 0..n }

Cash == <<"C","a","s","h">>

Upload(filename, wellformed, header, rows) ==
    [filename |-> filename, wellformed |-> wellformed, header |-> header, rows |-> rows]

CsvName == <<"a",".","c","s","v">>

\* A header that needs line 54: mixed case, surrounding blanks.
Header == << <<" ","I","t","e","m","s">>, <<"D","E","B","I","T">>, <<"C","r","e","d","i","t"," ">> >>

\* The same labels in another order.
PermutedHeader == << <<"D","E","B","I","T">>, <<"C","r","e","d","i","t"," ">>, <<" ","I","t","e","m","s">> >>

\* No credit column.
ShortHeader == << <<"i","t","e","m","s">>, <<"d","e","b","i","t">>, <<"a","m","o","u","n","t">> >>

\* Amounts around the thresholds of the rule stage.
DetectAmounts ==
    { <<"0">>, <<"5","0","0","0">>, <<"1","2","0","0","0">>, <<"2","0","0","0","0">> }

DetectUploads ==
    { Upload(CsvName, TRUE, Header, rows) :
        rows \in SeqsUpTo({ <<Cash, d, c>> : d, c \in DetectAmounts }, MaxRows) }

\* items fields: a data row, a footer row, a missing value.
TextItems == { Cash, <<"S","u","b"," ","T","O","T","A","L">>, <<>> }

AccrualFooter == <<"A","c","c","r","u","a","l"," ","B","a","s","i","s",":">>

\* Amount fields as text: empty (read as missing, printed "nan"), blank, "nan"
\* after a blank, a thousands separator, fractions of a dollar, a negative
\* number, a word.
TextAmounts ==
    { <<>>, <<" ">>, <<" ","n","a","n">>, <<"1",",","0","0","0">>,
      <<"0",".","0","6">>, <<"0",".","0","5">>, <<"-","5">>, <<"a","b","c">> }

TextUploads ==
    { Upload(CsvName, TRUE, Header, rows) :
        rows \in SeqsUpTo({ <<i, d, c>> : i \in TextItems, d, c \in TextAmounts },
                          MaxTextRows) }

OneRow == << <<Cash, <<"6","0","0","0">>, <<"0">>>> >>

StructUploads ==
    { Upload(<<"a",".","t","x","t">>, TRUE, Header, OneRow),
      Upload(CsvName, FALSE, <<>>, <<>>),
      Upload(CsvName, TRUE, ShortHeader, OneRow),
      Upload(CsvName, TRUE, PermutedHeader, << <<<<"6","0","0","0">>, <<"0">>, Cash>> >>),
      Upload(CsvName, TRUE, Header, OneRow \o << <<AccrualFooter, <<"a","b","c">>, <<>>>> >>) }

\* The files sent with every behaviour of the service.
ServiceUploads ==
    { Upload(CsvName, TRUE, Header, OneRow),
      Upload(CsvName, TRUE, Header, <<>>),
      Upload(CsvName, TRUE, Header, << <<Cash, <<"0">>, <<"a","b","c">>>> >>),
      Upload(CsvName, TRUE, ShortHeader, OneRow),
      Upload(CsvName, FALSE, <<>>, <<>>) }

Behaviours == { "replies", "fails", "hangs", "configure_fails" }

NoKey == [gemini_api_key |-> FALSE, service |-> "replies"]

Environments ==
    { NoKey } \cup { [gemini_api_key |-> TRUE, service |-> b] : b \in Behaviours }

TextAlphabet == { "-", " ", "\n", "a" }

ServiceTexts == SeqsUpTo(TextAlphabet, MaxTextLen)

ServiceErrors == { <<"5","0","3">> }

(***************************************************************************)
(* upload_csv, stage by stage                                              *)
(***************************************************************************)
NoResponse == [status |-> 0, body |-> [pending |-> TRUE]]

\* raise HTTPException(status_code=400, detail=...)
ClientError(detail) == [status |-> 400, body |-> [detail |-> detail]]

\* An exception no handler catches: FastAPI answers 500.
ServerError == [status |-> 500, body |-> [detail |-> [text |-> "Internal Server Error"]]]

\* Lines 42-43
CheckFileType ==
    /\ pc = "file_type"
    /\ ran' = Append(ran, "file_type")
    /\ IF ~EndsWith(file.filename, DotCsv)
       THEN /\ response' = ClientError([text |-> "Only CSV files are allowed"])
            /\ pc' = "done"
       ELSE /\ pc' = "read_csv"
            /\ UNCHANGED response
    /\ UNCHANGED << file, env, df, balance_message, contamination, anomaly_score,
                    amount_threshold, anomalies, recommendations >>

\* pd.read_csv: the header labels as written, every field as a cell.
read_csv(f) ==
    [columns |-> f.header,
     rows    |-> [i \in 1..Len(f.rows) |->
                    [j \in 1..Len(f.rows[i]) |-> ReadCell(f.rows[i][j])]]]

\* Lines 46-51
ReadCsv ==
    /\ pc = "read_csv"
    /\ ran' = Append(ran, "read_csv")
    /\ IF ~file.wellformed
       THEN /\ response' = ClientError([text |-> "Invalid CSV format"])
            /\ pc' = "done"
            /\ UNCHANGED df
       ELSE /\ df' = read_csv(file)
            /\ pc' = "normalize"
            /\ UNCHANGED response
    /\ UNCHANGED << file, env, balance_message, contamination, anomaly_score,
                    amount_threshold, anomalies, recommendations >>

\* Line 54: df.columns.str.lower().str.strip()
NormalizeLabel(label) == Strip(Lower(label))

\* Line 58
available_columns(columns) ==
    SelectSeq(expected_columns, LAMBDA col : \E j \in 1..Len(columns) : columns[j] = col)

\* Line 62: df[expected_columns], the columns looked up by label.
SelectColumns(columns, rows) ==
    LET at(col) == CHOOSE j \in 1..Len(columns) : columns[j] = col
    IN  [i \in 1..Len(rows) |->
            [items  |-> rows[i][at(expected_columns[1])],
             debit  |-> rows[i][at(expected_columns[2])],
             credit |-> rows[i][at(expected_columns[3])]]]

\* Lines 53-62
NormalizeColumns ==
    /\ pc = "normalize"
    /\ ran' = Append(ran, "normalize")
    /\ LET columns == [j \in 1..Len(df.columns) |-> NormalizeLabel(df.columns[j])]
       IN  IF Len(available_columns(columns)) # 3
           THEN /\ response' = ClientError([text |-> "CSV must have columns",
                                            columns |-> expected_columns])
                /\ pc' = "done"
                /\ UNCHANGED df
           ELSE /\ df' = SelectColumns(columns, df.rows)
                /\ pc' = "filter"
                /\ UNCHANGED response
    /\ UNCHANGED << file, env, balance_message, contamination, anomaly_score,
                    amount_threshold, anomalies, recommendations >>

\* The .str accessor exists only on a column of strings: a column of a file
\* with rows whose every items field is missing is read as float64.
ItemsAreStrings(rows) ==
    rows = <<>> \/ \E i \in 1..Len(rows) : ~rows[i].items.na

\* Line 65, one row: items present and matching none of the markers,
\* case-insensitively.
KeepRow(row) ==
    /\ ~row.items.na
    /\ \A m \in FooterMarkers : ~Contains(Lower(row.items.text), m)

\* Lines 64-65
FilterRows ==
    /\ pc = "filter"
    /\ ran' = Append(ran, "filter")
    /\ IF ~ItemsAreStrings(df)
       THEN /\ response' = ServerError
            /\ pc' = "done"
            /\ UNCHANGED df
       ELSE /\ df' = SelectSeq(df, KeepRow)
            /\ pc' = "clean"
            /\ UNCHANGED response
    /\ UNCHANGED << file, env, balance_message, contamination, anomaly_score,
                    amount_threshold, anomalies, recommendations >>

\* ColumnInvalid as it would be were only the debit column checked.
ColumnInvalidDebitOnly(rows, col) ==
    /\ col = "debit"
    /\ \E i \in 1..Len(rows) : CleanCell(rows[i][col]).nan

\* Line 73: df[col].isna().any() after lines 69-72
ColumnInvalid(rows, col) ==
    \E i \in 1..Len(rows) : CleanCell(rows[i][col]).nan

\* Lines 67-79, both columns converted: the amounts in cents.
Cleaned(rows) ==
    [i \in 1..Len(rows) |->
        [items  |-> rows[i].items.text,
         debit  |-> CleanCell(rows[i].debit).cents,
         credit |-> CleanCell(rows[i].credit).cents]]

\* Lines 76 and 79: the detail of the error for column col
InvalidNumeric(col) == [text |-> "Invalid numeric values in", col |-> col]

\* Lines 67-79: debit first, then credit; the first invalid column ends the
\* request.
CleanNumeric ==
    /\ pc = "clean"
    /\ ran' = Append(ran, "clean")
    /\ IF ColumnInvalid(df, "debit")
       THEN /\ response' = ClientError(InvalidNumeric("debit"))
            /\ pc' = "done"
            /\ UNCHANGED df
       ELSE IF ColumnInvalid(df, "credit")
       THEN /\ response' = ClientError(InvalidNumeric("credit"))
            /\ pc' = "done"
            /\ UNCHANGED df
       ELSE /\ df' = Cleaned(df)
            /\ pc' = "balance"
            /\ UNCHANGED response
    /\ UNCHANGED << file, env, balance_message, contamination, anomaly_score,
                    amount_threshold, anomalies, recommendations >>

Column(rows, col) == [i \in 1..Len(rows) |-> rows[i][col]]

\* Lines 82-83: df[col].sum() in float64
total(rows, col) ==
    FSum([i \in 1..Len(rows) |-> FromCents(rows[i][col])], FZero)

\* Line 84
is_balanced(total_debit, total_credit) ==
    FLess(FAbs(FSub(total_debit, total_credit)), FromCents(ToleranceCents))

\* Lines 85-89
BalanceMessage(rows) ==
    LET total_debit  == total(rows, "debit")
        total_credit == total(rows, "credit")
    IN  [verdict |-> IF is_balanced(total_debit, total_credit)
                     THEN "Balanced" ELSE "Unbalanced",
         debit   |-> Format2f(total_debit),
         credit  |-> Format2f(total_credit)]

\* Lines 81-89
BalanceCheck ==
    /\ pc = "balance"
    /\ ran' = Append(ran, "balance")
    /\ balance_message' = BalanceMessage(df)
    /\ pc' = "isolation_forest"
    /\ UNCHANGED << file, env, df, contamination, anomaly_score, amount_threshold,
                    anomalies, recommendations, response >>

\* Line 93
Contamination(n) ==
    IF n > 0 /\ 10 * 100 < 5 * n
    THEN [num |-> 10, den |-> n]
    ELSE [num |-> 5, den |-> 100]

\* Lines 91-95.  IsolationForest is a library: fit_predict raises ValueError
\* on a table without rows (no handler catches it), and on any other table
\* labels every row -1 or 1; the model allows every labelling.
FitPredict ==
    /\ pc = "isolation_forest"
    /\ ran' = Append(ran, "isolation_forest")
    /\ contamination' = Contamination(Len(df))
    /\ IF Len(df) = 0
       THEN /\ response' = ServerError
            /\ pc' = "done"
            /\ UNCHANGED anomaly_score
       ELSE /\ \E labels \in [1..Len(df) -> {-1, 1}] : anomaly_score' = labels
            /\ pc' = "rules"
            /\ UNCHANGED response
    /\ UNCHANGED << file, env, df, balance_message, amount_threshold, anomalies,
                    recommendations >>

\* AmountThreshold as it would be were the percentile taken over the rows'
\* larger amounts.
AmountThresholdOfRowMaximum(rows) ==
    Max2(Scaled(AmountFloor),
         Quantile95([i \in 1..Len(rows) |-> Max2(rows[i].debit, rows[i].credit)]))

\* Line 98: max(10000, df[["debit", "credit"]].quantile(0.95).max()): the
\* 95th percentile of each column, then the larger of the two.
AmountThreshold(rows) ==
    Max2(Scaled(AmountFloor),
         Max2(Quantile95(Column(rows, "debit")), Quantile95(Column(rows, "credit"))))

\* is_significant_anomaly as it would be without the statistical flag.
is_significant_anomaly_unflagged(row, score, thr) ==
    \/ 100 * row.debit > thr
    \/ 100 * row.credit > thr
    \/ 100 * row.debit > Scaled(imbalance_threshold) /\ row.credit = 0
    \/ 100 * row.credit > Scaled(imbalance_threshold) /\ row.debit = 0

\* Lines 100-107 for one row; amounts in cents, thr in hundredths of a cent.
is_significant_anomaly(row, score, thr) ==
    /\ score = -1
    /\ \/ 100 * row.debit > thr
       \/ 100 * row.credit > thr
       \/ 100 * row.debit > Scaled(imbalance_threshold) /\ row.credit = 0
       \/ 100 * row.credit > Scaled(imbalance_threshold) /\ row.debit = 0

\* Lines 109-111: the significant rows in row order, as records.
RECURSIVE SignificantFrom(_, _, _, _)
SignificantFrom(rows, scores, thr, i) ==
    IF i > Len(rows) THEN <<>>
    ELSE (IF is_significant_anomaly(rows[i], scores[i], thr)
          THEN << rows[i] >> ELSE <<>>)
         \o SignificantFrom(rows, scores, thr, i + 1)

\* Lines 97-112
RuleFilter ==
    /\ pc = "rules"
    /\ ran' = Append(ran, "rules")
    /\ amount_threshold' = AmountThreshold(df)
    /\ anomalies' = SignificantFrom(df, anomaly_score, AmountThreshold(df), 1)
    /\ pc' = "api_key"
    /\ UNCHANGED << file, env, df, balance_message, contamination, anomaly_score,
                    recommendations, response >>

\* Lines 115-118
GetApiKey ==
    /\ pc = "api_key"
    /\ ran' = Append(ran, "api_key")
    /\ IF ~env.gemini_api_key
       THEN /\ recommendations' = KeyNotSet
            /\ pc' = "respond"
       ELSE /\ pc' = "configure"
            /\ UNCHANGED recommendations
    /\ UNCHANGED << file, env, df, balance_message, contamination, anomaly_score,
                    amount_threshold, anomalies, response >>

\* Lines 120-129: genai.configure and genai.GenerativeModel run outside the
\* try block; an exception of either is not caught.
Configure ==
    /\ pc = "configure"
    /\ ran' = Append(ran, "configure")
    /\ IF env.service = "configure_fails"
       THEN /\ response' = ServerError
            /\ pc' = "done"
       ELSE /\ pc' = "generate_content"
            /\ UNCHANGED response
    /\ UNCHANGED << file, env, df, balance_message, contamination, anomaly_score,
                    amount_threshold, anomalies, recommendations >>

\* Line 131: model.generate_content(ai_prompt) is called, without a timeout;
\* the handler waits for it to return or raise.
GenerateContent ==
    /\ pc = "generate_content"
    /\ ran' = Append(ran, "generate_content")
    /\ pc' = "awaiting"
    /\ UNCHANGED << file, env, df, balance_message, contamination, anomaly_score,
                    amount_threshold, anomalies, recommendations, response >>

\* Lines 135-136
EnsureBullets(text) ==
    IF ~StartsWith(text, Bullet)
    THEN Bullet \o Join(<<"\n">> \o Bullet, Split(text, "\n"))
    ELSE text

\* Lines 131-136: the service returns text.
ReceiveText ==
    /\ pc = "awaiting"
    /\ env.service = "replies"
    /\ ran' = Append(ran, "bullets")
    /\ \E text \in ServiceTexts : recommendations' = EnsureBullets(Strip(text))
    /\ pc' = "respond"
    /\ UNCHANGED << file, env, df, balance_message, contamination, anomaly_score,
                    amount_threshold, anomalies, response >>

\* Lines 137-139: generate_content or response.text raises.
ReceiveError ==
    /\ pc = "awaiting"
    /\ env.service = "fails"
    /\ ran' = Append(ran, "ai_error")
    /\ \E e \in ServiceErrors : recommendations' = AiError(e)
    /\ pc' = "respond"
    /\ UNCHANGED << file, env, df, balance_message, contamination, anomaly_score,
                    amount_threshold, anomalies, response >>

\* Lines 141-146
Respond ==
    /\ pc = "respond"
    /\ ran' = Append(ran, "respond")
    /\ response' = [status |-> 200,
                    body   |-> [balance_status  |-> balance_message,
                                anomalies       |-> anomalies,
                                recommendations |-> recommendations]]
    /\ pc' = "done"
    /\ UNCHANGED << file, env, df, balance_message, contamination, anomaly_score,
                    amount_threshold, anomalies, recommendations >>

Next ==
    \/ CheckFileType
    \/ ReadCsv
    \/ NormalizeColumns
    \/ FilterRows
    \/ CleanNumeric
    \/ BalanceCheck
    \/ FitPredict
    \/ RuleFilter
    \/ GetApiKey
    \/ Configure
    \/ GenerateContent
    \/ ReceiveText
    \/ ReceiveError
    \/ Respond

(***************************************************************************)
(* The specification                                                       *)
(***************************************************************************)
Init ==
    /\ \/ file \in DetectUploads \cup TextUploads \cup StructUploads /\ env = NoKey
       \/ file \in ServiceUploads /\ env \in Environments
    /\ pc = "file_type"
    /\ df = <<>>
    /\ balance_message = [verdict |-> "", debit |-> 0, credit |-> 0]
    /\ contamination = [num |-> 0, den |-> 1]
    /\ anomaly_score = <<>>
    /\ amount_threshold = 0
    /\ anomalies = <<>>
    /\ recommendations = <<>>
    /\ response = NoResponse
    /\ ran = <<>>

Spec == Init /\ [][Next]_vars

(***************************************************************************)
(* Properties                                                              *)
(***************************************************************************)
Has(stage) == \E i \in 1..Len(ran) : ran[i] = stage

\* The numeric cleaner ended without error: df is the cleaned table.
TableCleaned == pc = "balance" \/ Has("balance")

Succeeded == response.status = 200

RECURSIVE SumCents(_)
SumCents(xs) == IF xs = <<>> THEN 0 ELSE Head(xs) + SumCents(Tail(xs))

Abs(n) == IF n < 0 THEN -n ELSE n

ErrorMarked(text) == text = KeyNotSet \/ StartsWith(text, AiErrorPrefix)

\* C1: when the cleaned table has no rows, IsolationForest is not invoked and
\* the request ends in a success response: Balanced, totals 0.00 and 0.00,
\* no anomalies; never in an error.
C1_EmptyTableShortCircuits ==
    (TableCleaned /\ Len(df) = 0) =>
        /\ ~Has("isolation_forest")
        /\ pc = "done" =>
            /\ Succeeded
            /\ response.body.balance_status = [verdict |-> "Balanced", debit |-> 0, credit |-> 0]
            /\ response.body.anomalies = <<>>

\* The rule of the claim for one cleaned row, amounts in cents, against the
\* threshold the handler used.
RuleHolds(row) ==
    \/ 100 * row.debit > amount_threshold
    \/ 100 * row.credit > amount_threshold
    \/ row.debit > 100 * imbalance_threshold /\ row.credit = 0
    \/ row.credit > 100 * imbalance_threshold /\ row.debit = 0

Surfaced ==
    SelectSeq([i \in 1..Len(df) |-> i],
              LAMBDA i : anomaly_score[i] = -1 /\ RuleHolds(df[i]))

\* C2: in every success response the anomalies are exactly the cleaned rows,
\* in row order, that carry the statistical flag and satisfy a rule; a row
\* without the flag is never listed.
C2_AnomaliesAreFlaggedAndSignificant ==
    Succeeded =>
        /\ Len(anomaly_score) = Len(df)
        /\ response.body.anomalies = [k \in 1..Len(Surfaced) |-> df[Surfaced[k]]]
        /\ \A k \in 1..Len(response.body.anomalies) :
              \E i \in 1..Len(df) :
                  /\ df[i] = response.body.anomalies[k]
                  /\ anomaly_score[i] = -1

\* A success response that lists a flagged row and leaves out an unflagged row
\* whose debit is above the threshold.
C2_Witness ==
    /\ Succeeded
    /\ Len(response.body.anomalies) = 1
    /\ \E i, j \in 1..Len(df) :
          /\ anomaly_score[i] = -1 /\ RuleHolds(df[i])
          /\ anomaly_score[j] = 1 /\ 100 * df[j].debit > amount_threshold

\* C3: once validation has passed, a failure of the recommendation step never
\* fails the request: the response is a success carrying the balance status
\* and the anomalies computed before, and an error-marked recommendations
\* string.
C3_RecommendationFailureIsDegraded ==
    (Has("api_key") /\ pc = "done") =>
        /\ Succeeded
        /\ response.body.balance_status = balance_message
        /\ response.body.anomalies = anomalies
        /\ ~(env.gemini_api_key /\ env.service = "replies")
              => ErrorMarked(response.body.recommendations)

\* The stage at which the file fails validation ("none" when it does not, or
\* when the handler ends before reaching that check).
FailingStage ==
    IF ~EndsWith(file.filename, DotCsv) THEN "none"
    ELSE IF ~file.wellformed THEN "read_csv"
    ELSE LET columns == [j \in 1..Len(file.header) |-> Strip(Lower(file.header[j]))]
         IN  IF \E col \in {expected_columns[k] : k \in 1..3} :
                    \A j \in 1..Len(columns) : columns[j] # col
             THEN "normalize"
             ELSE LET rows == SelectColumns(columns, read_csv(file).rows)
                  IN  IF ~ItemsAreStrings(rows) THEN "none"
                      ELSE IF \E i \in 1..Len(rows) :
                                  /\ KeepRow(rows[i])
                                  /\ \/ CleanCell(rows[i].debit).nan
                                     \/ CleanCell(rows[i].credit).nan
                      THEN "clean"
                      ELSE "none"

StagesUpTo(stage) ==
    CASE stage = "read_csv"  -> {"file_type", "read_csv"}
      [] stage = "normalize" -> {"file_type", "read_csv", "normalize"}
      [] stage = "clean"     -> {"file_type", "read_csv", "normalize", "filter", "clean"}

\* C4: a validation failure (unparseable content, a missing column, a
\* non-numeric amount) ends the request at once with status 400: no stage
\* after the failing one ever runs, the response holds neither a balance status
\* nor anomalies, and the recommendation service is not called.
C4_ValidationFailureStopsThePipeline ==
    FailingStage # "none" =>
        /\ \A i \in 1..Len(ran) : ran[i] \in StagesUpTo(FailingStage)
        /\ ~Has("generate_content")
        /\ Has(FailingStage) =>
              /\ pc = "done"
              /\ response.status = 400
              /\ DOMAIN response.body = {"detail"}

\* A request ended with 400 by a non-numeric credit after the debit column was
\* converted, with the key set and the service ready to answer.
C4_Witness ==
    /\ FailingStage = "clean"
    /\ pc = "done"
    /\ response.status = 400
    /\ response.body.detail.col = "credit"
    /\ env.gemini_api_key

\* C5: every row of the cleaned table has debit >= 0 and credit >= 0.
C5_CleanedAmountsNonNegative ==
    TableCleaned => \A i \in 1..Len(df) : df[i].debit >= 0 /\ df[i].credit >= 0

\* The k-th smallest value of a column.
OrderStatistic(col, k) ==
    CHOOSE v \in {col[i] : i \in 1..Len(col)} :
        /\ Cardinality({i \in 1..Len(col) : col[i] < v}) < k
        /\ k <= Cardinality({i \in 1..Len(col) : col[i] <= v})

\* The 95th percentile of a column of cents by linear interpolation, in
\* hundredths of a cent.
Percentile95(col) ==
    LET n == Len(col)
        h == 95 * (n - 1)
        a == OrderStatistic(col, (h \div 100) + 1)
        b == OrderStatistic(col, IF (h \div 100) + 2 <= n THEN (h \div 100) + 2 ELSE n)
    IN  100 * a + (h % 100) * (b - a)

Largest(S) == CHOOSE x \in S : \A y \in S : y <= x

\* C6 as claimed: amount_threshold is max(10000, P95) with P95 the 95th
\* percentile over the rows of max(debit, credit); never below 10000.
C6_ThresholdIsPercentileOfRowMaximum ==
    Has("rules") =>
        /\ amount_threshold =
              Largest({ 100 * (100 * AmountFloor),
                        Percentile95([i \in 1..Len(df) |->
                            Largest({df[i].debit, df[i].credit})]) })
        /\ amount_threshold >= 100 * (100 * AmountFloor)

\* C6 as amended: whenever the rule stage runs, amount_threshold is
\* max(10000, P95(debit), P95(credit)), each P95 the 95th percentile of one
\* column over all cleaned rows; never below 10000.
C6_ThresholdIsLargestColumnPercentile ==
    Has("rules") =>
        /\ amount_threshold =
              Largest({ 100 * (100 * AmountFloor),
                        Percentile95([i \in 1..Len(df) |-> df[i].debit]),
                        Percentile95([i \in 1..Len(df) |-> df[i].credit]) })
        /\ amount_threshold >= 100 * (100 * AmountFloor)

\* The rule stage ran on a table whose column percentiles exceed the floor and
\* differ from the percentile of the row maxima.
C6_Witness ==
    /\ Has("rules")
    /\ amount_threshold > 100 * (100 * AmountFloor)
    /\ amount_threshold #
          Percentile95([i \in 1..Len(df) |-> Largest({df[i].debit, df[i].credit})])

\* C7: the balance status says Balanced exactly when the two totals differ by
\* less than 0.01 (a difference of exactly 0.01 is Unbalanced), and carries
\* both totals with two decimals.
C7_BalancedIffWithinTolerance ==
    Has("balance") =>
        LET debits  == SumCents([i \in 1..Len(df) |-> df[i].debit])
            credits == SumCents([i \in 1..Len(df) |-> df[i].credit])
        IN  /\ balance_message.verdict \in {"Balanced", "Unbalanced"}
            /\ balance_message.verdict = "Balanced"
                  <=> Abs(debits - credits) < ToleranceCents
            /\ balance_message.debit = debits
            /\ balance_message.credit = credits

\* The request ended in the numeric cleaner.
EndedInCleaner == pc = "done" /\ ran # <<>> /\ ran[Len(ran)] = "clean"

\* C8: in the numeric cleaner an empty string or "nan" (after removing
\* separators and blanks) becomes 0, and any other token that is not a number
\* ends the request with a client error whose message names the column and the
\* row.
C8_CleanerZeroesBlanksAndNamesColumnAndRow ==
    /\ \A t \in TextAmounts :
          Strip(RemoveChar(t, ",")) \in {<<>>, <<"n","a","n">>}
              => CleanCell(ReadCell(t)) = [nan |-> FALSE, cents |-> 0]
    /\ EndedInCleaner =>
          /\ response.status = 400
          /\ "col" \in DOMAIN response.body.detail
          /\ \E f \in DOMAIN response.body.detail : f \in {"row", "rows", "items"}

\* C9: the call to the recommendation service is bounded by a timeout: while
\* the handler waits for the service it can always take a step (a reply, an
\* error or a timeout), also when the service never replies, so that the
\* request eventually produces a response.
C9_ServiceCallBoundedByTimeout ==
    (pc = "awaiting") => ENABLED Next

\* C10: whenever the service returns text, every line of the recommendations
\* begins with "- ".
C10_EveryLineIsABullet ==
    (Has("bullets") /\ pc \in {"respond", "done"}) =>
        LET lines == Split(recommendations, "\n")
        IN  \A k \in 1..Len(lines) : StartsWith(lines[k], Bullet)

====
